---- MODULE Spec2Model ----
(***************************************************************************)
(* Model of src/sublime/cli/decorator.py: the decorator stack that wraps   *)
(* the "enrich" and "analyze" subcommands of the sublime CLI.              *)
(*                                                                         *)
(*   pass_api_client -> click.pass_context -> echo_result                  *)
(*                   -> handle_exceptions -> subcommand                    *)
(*                                                                         *)
(* One behaviour is one invocation of the command line.  Texts and paths   *)
(* are sequences of one-character strings so that os.path.splitext,        *)
(* os.path.basename and str.strip can be computed as Python computes them. *)
(***************************************************************************)
EXTENDS Integers, Sequences, FiniteSets, TLC

VARIABLES
    command,        \* context.command.name
    api_key,        \* params["api_key"], the -k/--api-key option
    environ,        \* value of the API-key environment variable
    config_file,    \* api_key stored in the persisted configuration file
    input_file,     \* params["input_file"].name
    output_file,    \* params["output_file"]: name of the -o file, or NoOutputFile
    output_format,  \* params["output_format"]
    pc,             \* which wrapper of the decorator stack runs next
    api_client,     \* <<>> or <<the Sublime client built at line 124>>
    requests,       \* the requests sent to the remote service, in order
    result,         \* <<>> or <<the value the subcommand returned>>
    exception,      \* <<>> or <<the exception the subcommand raised>>
    stdout,         \* chunks written to standard output, one per click.echo
    files,          \* files written by this run: records [name, content]
    log,            \* messages passed to LOGGER.error
    exit_code,      \* process exit value, meaningful once pc = "exited"
    uncaught        \* name of an exception that left the stack unhandled

vars == <<command, api_key, environ, config_file, input_file, output_file,
          output_format, pc, api_client, requests, result, exception,
          stdout, files, log, exit_code, uncaught>>

params == <<command, api_key, environ, config_file, input_file, output_file,
            output_format>>

(***************************************************************************)
(* Bounds of the model.                                                    *)
(***************************************************************************)
MaxPathLen == 4
MaxTextLen == 2
MaxRequests == 2

(***************************************************************************)
(* Values.                                                                 *)
(***************************************************************************)
\* Python's None for a string-valued option or environment variable.
None == "<None>"

\* params["output_file"] is None when -o is not given.
NoOutputFile == << >>

NL == "\n"

Commands == {"enrich", "analyze"}

OutputFormats == {"json", "txt"}

\* -k absent, -k "" and -k with a key.
ApiKeyOptions == {None, "", "flag-key"}

\* The environment variable unset, or set to a key.
EnvironValues == {None, "env-key"}

\* The configuration file without a key (the parser's default "") or with one.
ConfigFileKeys == {"", "file-key"}

PathChars == {"m", ".", "/"}

SeqsUpTo(S, n) == UNION {[1..k -> S] : k \in 0..n}

\* Names of regular files: non-empty and not ending in the separator.
PathsUpTo(n) == {p \in SeqsUpTo(PathChars, n) : Len(p) > 0 /\ p[Len(p)] # "/"}

InputFiles == PathsUpTo(MaxPathLen)

OutputFiles == {NoOutputFile, <<"o">>}

TextChars == {"x", NL}

Texts == SeqsUpTo(TextChars, MaxTextLen)

\* The remote service's result is opaque to the CLI; a result is identified
\* here by the text each formatter renders it to.
Results == [json : Texts, txt : Texts]

\* The results the service returns in the whole-invocation specification.
SampleResults ==
    {[json |-> <<"x">>, txt |-> <<"x", NL>>],
     [json |-> <<NL, "x">>, txt |-> << >>]}

\* Bodies of an API-level error response: with and without a "detail" member.
ErrorBodies == {[detail |-> "bad file"], [message |-> "bad gateway"]}

StatusCodes == {400, 502}

TransportErrors == {"connection refused"}

ApiKeyNotFoundMessage == <<"Error: API key not found.">>

MdmSuffix == <<".", "m", "d", "m">>

(***************************************************************************)
(* Pure helpers, computed as the Python library computes them.             *)
(***************************************************************************)
\* str.rfind for one character, 1-based: 0 when the character is absent.
RFind(p, c) ==
    LET hits == {i \in 1..Len(p) : p[i] = c}
    IN  IF hits = {} THEN 0 ELSE CHOOSE i \in hits : \A j \in hits : j <= i

\* Faulty variant: cuts at the first dot of the last component.
splitext_all_dots(p) ==
    LET sepIndex == RFind(p, "/")
        dots == {i \in sepIndex + 1..Len(p) : p[i] = "."}
        first == IF dots = {} THEN 0 ELSE CHOOSE i \in dots : \A j \in dots : i <= j
    IN  IF first > sepIndex + 1 THEN SubSeq(p, 1, first - 1) ELSE p

\* os.path.splitext(p)[0] on POSIX, line 50: the extension starts at the
\* last dot of the last path component, and leading dots of that component
\* are skipped.
splitext(p) ==
    LET sepIndex == RFind(p, "/")
        dotIndex == RFind(p, ".")
    IN  IF /\ dotIndex > sepIndex
           /\ \E filenameIndex \in sepIndex + 1..dotIndex - 1 : p[filenameIndex] # "."
        THEN SubSeq(p, 1, dotIndex - 1)
        ELSE p

\* Faulty variant: keeps the directory part.
basename_identity(p) == p

\* os.path.basename(p) on POSIX, line 51.
basename(p) == SubSeq(p, RFind(p, "/") + 1, Len(p))

\* Lines 49-52: the default name of the .mdm file.
default_mdm_name(input_file_relative_name) ==
    LET input_file_relative_no_ext == splitext(input_file_relative_name)
        input_file_name_no_ext == basename(input_file_relative_no_ext)
    IN  input_file_name_no_ext \o MdmSuffix

\* str.lstrip("\n") and str.rstrip("\n").
RECURSIVE lstrip(_)
lstrip(t) == IF Len(t) > 0 /\ t[1] = NL THEN lstrip(Tail(t)) ELSE t

RECURSIVE rstrip(_)
rstrip(t) ==
    IF Len(t) > 0 /\ t[Len(t)] = NL THEN rstrip(SubSeq(t, 1, Len(t) - 1)) ELSE t

\* Faulty variant: the formatter output is passed on as it is.
strip_nothing(t) == t

\* str.strip("\n"), as called at lines 42 and 55.

strip(t) == lstrip(rstrip(t))

\* FORMATTERS[output_format], narrowed by the command name for "txt"
\* (lines 37-40), applied to a result.
FORMATTERS(format, r) == IF format = "json" THEN r.json ELSE r.txt

\* click.echo(message, file=f): what reaches the file is the message and a
\* newline.
echo(message) == message \o <<NL>>

\* sublime.util.load_config(): the environment variable overrides the
\* key kept in the configuration file.
load_config(env, file_key) ==
    [api_key |-> IF env # None THEN env ELSE file_key]

\* "API error: {}".format(detail), lines 79 and 84.
error_message(detail) == <<"API error: ", detail>>

(***************************************************************************)
(* Initial states.                                                         *)
(***************************************************************************)
Fresh ==
    /\ api_client = << >>
    /\ requests = << >>
    /\ result = << >>
    /\ exception = << >>
    /\ stdout = << >>
    /\ files = {}
    /\ log = << >>
    /\ exit_code = 0
    /\ uncaught = None

\* The command line has been parsed by click; pass_api_client runs first.
Init ==
    /\ command \in Commands
    /\ api_key \in ApiKeyOptions
    /\ environ \in EnvironValues
    /\ config_file \in ConfigFileKeys
    /\ input_file \in InputFiles
    /\ output_file \in OutputFiles
    /\ output_format \in OutputFormats
    /\ pc = "pass_api_client"
    /\ Fresh

(***************************************************************************)
(* pass_api_client.wrapper, lines 102-125.                                 *)
(***************************************************************************)
\* Faulty variant: the check for a missing key is skipped.
api_key_missing_never(flag, config) == FALSE

\* Lines 108-109: the conditions under which the run stops for want of a key.

api_key_missing(flag, config) == flag = None /\ config.api_key = ""

\* Faulty variant: the configuration is preferred to the option.
resolved_api_key_config_first(flag, config) ==
    IF config.api_key # "" THEN config.api_key ELSE flag

\* Lines 105, 108 and 122: the key handed to Sublime(api_key=...).
resolved_api_key(flag, config) == IF flag = None THEN config.api_key ELSE flag

\* context.exit(code): click raises Exit and the process ends with the code.
Exit(code) ==
    /\ pc' = "exited"
    /\ exit_code' = code

PassApiClient ==
    /\ pc = "pass_api_client"
    /\ LET config == load_config(environ, config_file)
       IN  IF api_key_missing(api_key, config)
           THEN /\ stdout' = Append(stdout, echo(ApiKeyNotFoundMessage))
                /\ Exit(-1)
                /\ UNCHANGED api_client
           ELSE /\ api_client' = <<[api_key |-> resolved_api_key(api_key, config)]>>
                /\ pc' = "function"
                /\ UNCHANGED <<stdout, exit_code>>
    /\ UNCHANGED <<params, requests, result, exception, files, log, uncaught>>

(***************************************************************************)
(* The wrapped subcommand, called at line 76 through lines 125, 33 and     *)
(* 160/199: it sends one request with the client's key and either returns  *)
(* the service's result or raises.                                         *)
(***************************************************************************)
SendRequest ==
    /\ pc = "function"
    /\ Len(requests) < MaxRequests
    /\ requests' = Append(requests, [kind |-> command,
                                     api_key |-> api_client[1].api_key,
                                     input |-> input_file])

SubcommandReturns ==
    /\ SendRequest
    /\ \E r \in SampleResults : result' = <<r>>
    /\ pc' = "echo_result"
    /\ UNCHANGED <<params, api_client, exception, stdout, files, log,
                   exit_code, uncaught>>

SubcommandRaisesRequestFailure ==
    /\ SendRequest
    /\ \E status \in StatusCodes, body \in ErrorBodies :
          exception' = <<[type |-> "RequestFailure", args |-> <<status, body>>]>>
    /\ pc' = "handle_exceptions"
    /\ UNCHANGED <<params, api_client, result, stdout, files, log,
                   exit_code, uncaught>>

SubcommandRaisesRequestException ==
    /\ SendRequest
    /\ \E e \in TransportErrors :
          exception' = <<[type |-> "RequestException", args |-> <<e>>]>>
    /\ pc' = "handle_exceptions"
    /\ UNCHANGED <<params, api_client, result, stdout, files, log,
                   exit_code, uncaught>>

(***************************************************************************)
(* handle_exceptions.wrapper, lines 73-87.                                 *)
(***************************************************************************)
\* Lines 77-82.  body["detail"] raises KeyError when the body has no such
\* member; nothing in the stack catches it, and the interpreter ends the
\* process with status 1.
HandleRequestFailure ==
    /\ pc = "handle_exceptions"
    /\ exception[1].type = "RequestFailure"
    /\ LET body == exception[1].args[2]
       IN  IF "detail" \in DOMAIN body
           THEN /\ log' = Append(log, error_message(body.detail))
                /\ Exit(-1)
                /\ UNCHANGED uncaught
           ELSE /\ uncaught' = "KeyError"
                /\ Exit(1)
                /\ UNCHANGED log
    /\ UNCHANGED <<params, api_client, requests, result, exception, stdout, files>>

\* Faulty variant: a handler that sends the request again instead of giving up.
HandleRequestException_retry ==
    /\ pc = "handle_exceptions"
    /\ exception[1].type = "RequestException"
    /\ log' = Append(log, error_message(exception[1].args[1]))
    /\ pc' = "function"
    /\ UNCHANGED <<params, api_client, requests, result, exception, stdout,
                   files, exit_code, uncaught>>

\* Lines 83-87.
HandleRequestException ==
    /\ pc = "handle_exceptions"
    /\ exception[1].type = "RequestException"
    /\ log' = Append(log, error_message(exception[1].args[1]))
    /\ Exit(-1)
    /\ UNCHANGED <<params, api_client, requests, result, exception, stdout,
                   files, uncaught>>

(***************************************************************************)
(* echo_result.wrapper, lines 34-58, after the wrapped call at line 33     *)
(* has returned.                                                           *)
(***************************************************************************)
\* Lines 36-42: the primary output.
primary_output == strip(FORMATTERS(output_format, result[1]))

\* Faulty variant: the copy is rendered with the selected formatter.
mdm_output_selected_format == strip(FORMATTERS(output_format, result[1]))

\* Lines 54-55: the copy kept in the .mdm file.
mdm_output == strip(FORMATTERS("json", result[1]))

\* Faulty variant: the copy is written for every command and target.
saves_mdm_always == TRUE

\* Line 48: whether the .mdm copy is written.
saves_mdm == command = "enrich" /\ output_file = NoOutputFile

\* Lines 43-45: params always holds "output_file", so the default of
\* params.get is never used; with file=None click.echo writes to stdout.
EchoResult ==
    /\ pc = "echo_result"
    /\ LET primary == IF output_file = NoOutputFile
                      THEN {}
                      ELSE {[name |-> output_file, content |-> echo(primary_output)]}
           mdm == IF saves_mdm
                  THEN {[name |-> default_mdm_name(input_file),
                         content |-> echo(mdm_output)]}
                  ELSE {}
       IN  /\ stdout' = IF output_file = NoOutputFile
                        THEN Append(stdout, echo(primary_output))
                        ELSE stdout
           /\ files' = files \cup primary \cup mdm
    /\ Exit(0)
    /\ UNCHANGED <<params, api_client, requests, result, exception, log, uncaught>>

Next ==
    \/ PassApiClient
    \/ SubcommandReturns
    \/ SubcommandRaisesRequestFailure
    \/ SubcommandRaisesRequestException
    \/ HandleRequestFailure
    \/ HandleRequestException
    \/ EchoResult

Spec == Init /\ [][Next]_vars

(***************************************************************************)
(* echo_result alone, over every result text and every input file name up  *)
(* to the bounds: the states in which the wrapped call has just returned.  *)
(***************************************************************************)
InitEcho ==
    /\ command \in Commands
    /\ api_key = "flag-key"
    /\ environ = None
    /\ config_file = ""
    /\ input_file \in InputFiles
    /\ output_file \in OutputFiles
    /\ output_format \in OutputFormats
    /\ pc = "echo_result"
    /\ api_client = <<[api_key |-> "flag-key"]>>
    /\ requests = <<[kind |-> command, api_key |-> "flag-key", input |-> input_file]>>
    /\ result \in {<<r>> : r \in Results}
    /\ exception = << >>
    /\ stdout = << >>
    /\ files = {}
    /\ log = << >>
    /\ exit_code = 0
    /\ uncaught = None

SpecEcho == InitEcho /\ [][EchoResult]_vars

(***************************************************************************)
(* Vocabulary of the properties.                                           *)
(***************************************************************************)
Exited == pc = "exited"

ConfigLacksKey == load_config(environ, config_file).api_key = ""

RemoteSucceeded == result # << >>

RemoteFailed == exception # << >>

\* Chunks on standard output that are result output, not the key error.
StdoutResults == {i \in 1..Len(stdout) : stdout[i] # echo(ApiKeyNotFoundMessage)}

EndsWith(name, suffix) ==
    /\ Len(name) >= Len(suffix)
    /\ SubSeq(name, Len(name) - Len(suffix) + 1, Len(name)) = suffix

MdmFiles == {f \in files : EndsWith(f.name, MdmSuffix)}

NoResultOutput == StdoutResults = {} /\ files = {}

\* The text click.echo was given, recovered from what it wrote.
Handed(content) == SubSeq(content, 1, Len(content) - 1)

\* C1: for enrich and analyze alike, when -k is absent and the loaded
\* configuration has no key, the run prints the "API key not found" error and
\* exits non-zero; the client is never built, no request is sent and no
\* result reaches stdout, an output file or a .mdm file.
C1_MissingKeyStops ==
    (api_key = None /\ ConfigLacksKey) =>
        /\ api_client = << >>
        /\ requests = << >>
        /\ NoResultOutput
        /\ \/ pc = "pass_api_client" /\ stdout = << >>
           \/ /\ Exited
              /\ exit_code # 0
              /\ stdout = <<echo(ApiKeyNotFoundMessage)>>

C1_Witness ==
    /\ Exited
    /\ api_key = None
    /\ ConfigLacksKey
    /\ command = "analyze"
    /\ stdout = <<echo(ApiKeyNotFoundMessage)>>

\* C2: after any remote failure (transport error, or API error response with
\* any body) the run has logged one message carrying the error detail, exits
\* non-zero and has written nothing to stdout, the output file or a .mdm file.
C2_RemoteFailureLogged ==
    (Exited /\ RemoteFailed) =>
        /\ exit_code # 0
        /\ NoResultOutput
        /\ Len(log) = 1
        /\ log[1][1] = "API error: "
        /\ LET e == exception[1]
           IN  /\ e.type = "RequestException" => log[1][2] = e.args[1]
               /\ (e.type = "RequestFailure" /\ "detail" \in DOMAIN e.args[2])
                      => log[1][2] = e.args[2].detail

\* C3: enrich, success, no -o: stdout receives the result in the selected
\* format and the derived .mdm file receives the JSON rendering of the same
\* result, whatever the selected format.
C3_EnrichDualWrite ==
    (Exited /\ exit_code = 0 /\ command = "enrich" /\ output_file = NoOutputFile) =>
        /\ stdout = <<echo(strip(FORMATTERS(output_format, result[1])))>>
        /\ files = {[name |-> default_mdm_name(input_file),
                     content |-> echo(strip(result[1].json))]}

C3_Witness ==
    /\ Exited
    /\ command = "enrich"
    /\ output_file = NoOutputFile
    /\ output_format = "txt"
    /\ strip(result[1].txt) # strip(result[1].json)
    /\ Len(stdout) = 1
    /\ MdmFiles # {}

ExpectedKey ==
    IF api_key # None THEN api_key
    ELSE IF environ # None THEN environ
    ELSE config_file

C5_KeyPrecedence ==
    /\ api_client # << >> => api_client[1].api_key = ExpectedKey
    /\ \A i \in 1..Len(requests) : requests[i].api_key = ExpectedKey

C5_Witness ==
    /\ Len(requests) = 1
    /\ api_key = None
    /\ environ # None
    /\ config_file # ""
    /\ requests[1].api_key = environ

\* C6: exit code 0 only after credentials were resolved, the remote call
\* succeeded and the output was written; a missing key, a transport failure
\* and an API error response each end the run with exit value -1.
C6_ExitStatus ==
    Exited =>
        /\ exit_code = 0 =>
              /\ api_client # << >>
              /\ RemoteSucceeded
              /\ StdoutResults # {} \/ files # {}
        /\ (api_client = << >> \/ RemoteFailed) => exit_code = -1

\* C7: at most one request is sent per run, a failed request is not sent
\* again, and result output exists only once that request has succeeded.
C7_SingleRequest ==
    /\ Len(requests) <= 1
    /\ (RemoteSucceeded \/ RemoteFailed) => Len(requests) = 1
    /\ ~NoResultOutput => (Len(requests) = 1 /\ RemoteSucceeded)

C7_Witness ==
    /\ Exited
    /\ RemoteFailed
    /\ exception[1].type = "RequestException"
    /\ Len(requests) = 1
    /\ NoResultOutput

\* C8: the text handed to click.echo is the formatter's output without its
\* trailing newlines (only newlines at the ends are removed), for the primary
\* output and for the JSON copy in the .mdm file.
TrailingNewlinesRemoved(handed, formatted) ==
    /\ Len(handed) = 0 \/ handed[Len(handed)] # NL
    /\ \E j \in 0..Len(formatted), k \in 0..Len(formatted) :
          /\ j <= k
          /\ SubSeq(formatted, j + 1, k) = handed
          /\ \A i \in 1..j : formatted[i] = NL
          /\ \A i \in k + 1..Len(formatted) : formatted[i] = NL

C8_TrailingNewlinesStripped ==
    (Exited /\ RemoteSucceeded) =>
        /\ \A i \in StdoutResults :
              TrailingNewlinesRemoved(Handed(stdout[i]),
                                      FORMATTERS(output_format, result[1]))
        /\ \A f \in files \ MdmFiles :
              TrailingNewlinesRemoved(Handed(f.content),
                                      FORMATTERS(output_format, result[1]))
        /\ \A f \in MdmFiles :
              TrailingNewlinesRemoved(Handed(f.content), result[1].json)

C8_Witness ==
    /\ Exited
    /\ command = "enrich"
    /\ output_file = NoOutputFile
    /\ output_format = "txt"
    /\ result[1].txt = <<"x", NL>>
    /\ result[1].json = <<NL, NL>>
    /\ stdout = <<echo(<<"x">>)>>
    /\ \E f \in MdmFiles : f.content = echo(<< >>)

\* C9: for a successful enrich without -o the default file name is the base name of the
\* input path (directory part dropped) with only its last extension removed,
\* followed by ".mdm".
LastComponent(p) ==
    LET k == CHOOSE k \in 0..Len(p) :
                 /\ \A i \in k + 1..Len(p) : p[i] # "/"
                 /\ k = 0 \/ p[k] = "/"
    IN  SubSeq(p, k + 1, Len(p))

\* The extension starts at the last dot of a name, provided some character
\* other than a dot precedes it.
IsExtensionDot(b, d) ==
    /\ b[d] = "."
    /\ \A i \in d + 1..Len(b) : b[i] # "."
    /\ \E i \in 1..d - 1 : b[i] # "."

WithoutLastExtension(b) ==
    IF \E d \in 1..Len(b) : IsExtensionDot(b, d)
    THEN SubSeq(b, 1, (CHOOSE d \in 1..Len(b) : IsExtensionDot(b, d)) - 1)
    ELSE b

C9_DefaultMdmName ==
    (Exited /\ RemoteSucceeded /\ command = "enrich" /\ output_file = NoOutputFile) =>
        /\ Cardinality(files) = 1
        /\ \A f \in files :
              f.name = WithoutLastExtension(LastComponent(input_file)) \o MdmSuffix

C9_Witness ==
    /\ Exited
    /\ command = "enrich"
    /\ output_file = NoOutputFile
    /\ input_file = <<"m", ".", "m">>
    /\ \E f \in files : f.name = <<"m", ".", "m", "d", "m">>

\* C10: whenever a client exists or a request was sent, its API key is a
\* non-empty string, for every -k value (absent, empty, non-empty) and every
\* configuration key.
C10_NonEmptyKey ==
    /\ api_client # << >> => api_client[1].api_key # ""
    /\ \A i \in 1..Len(requests) : requests[i].api_key # ""

====
